---- MODULE Spec2Model ----
(***************************************************************************)
(* The seed-data scripts of Tricykol: create_passenger, create_booking and *)
(* create_group_booking against a Firestore document store, the pure fare *)
(* and bucket-key computations they use, and create_verified_driver        *)
(* against Firebase Auth and the same store.                               *)
(*                                                                         *)
(* Numbers.  Python floats are modelled exactly: a distance in km is kept  *)
(* in thousandths (so distance_km is the integer distance_meters over the  *)
(* denominator MetersPerKm), a coordinate is a fixed-point number in units *)
(* of 1/CoordDenominator degree.  Strings that the code formats are        *)
(* sequences of one-character strings.                                     *)
(***************************************************************************)
EXTENDS Integers, Sequences, FiniteSets, TLC

VARIABLES
    passengers,   \* db.collection('passengers'): document id -> document
    bookings,     \* db.collection('bookings'):   document id -> document
    uuidCount,    \* how many values uuid.uuid4() has handed out
    reads,        \* how many passenger_ref.get() reads were issued
    writes,       \* how many booking_ref.set() writes were applied
    calls,        \* how many script functions were called
    call,         \* the function last called, with its arguments
    result,       \* what that call returned
    users,        \* Firebase Auth: uid -> user record
    drivers,      \* db.collection('drivers'): document id -> document
    wallets       \* db.collection('wallets'): document id -> document

vars == <<passengers, bookings, uuidCount, reads, writes, calls, call, result, users, drivers, wallets>>

\* What create_verified_driver works on.
identity == <<users, drivers, wallets>>

store == <<passengers, bookings, uuidCount, reads, writes, calls, identity>>

\* No call has returned yet.
NoResult == [returned |-> FALSE]

\* Nothing was stored and nothing was called.
EmptyStore ==
    /\ passengers = <<>>
    /\ bookings = <<>>
    /\ uuidCount = 0
    /\ reads = 0
    /\ writes = 0
    /\ calls = 0
    /\ users = <<>>
    /\ drivers = <<>>
    /\ wallets = <<>>

----------------------------------------------------------------------------
(* Bounds of the model *)

MaxDistance == 10000
MaxCalls == 3
MaxCount == 4
MaxCoord == 11

----------------------------------------------------------------------------
(* calculate_fare, create_group_booking.py:21-40 *)

MetersPerKm == 1000
BaseFare == 25
PerKmFare == 8
PerPassengerFare == 10

max(a, b) == IF a >= b THEN a ELSE b

\* A rounding that drops the fraction, as int() would.
round_down(num, den) == num \div den

\* A rounding to the integer above, as math.ceil would.
round_up(num, den) == -((-num) \div den)

\* Python 3 round(num/den) for den > 0: the nearest integer, a tie going to
\* the even neighbour.
round(num, den) ==
    LET q == num \div den
        r == num % den
    IN  IF 2 * r < den THEN q
        ELSE IF 2 * r > den THEN q + 1
        ELSE IF q % 2 = 0 THEN q ELSE q + 1

\* The distance after the first km with the floor at zero left out.
additional_km_unclamped(distance_km) == distance_km - 1 * MetersPerKm

\* additional_km = max(0, distance_km - 1), in thousandths of a km.
additional_km(distance_km) == max(0, distance_km - 1 * MetersPerKm)

calculate_fare(distance_meters, passenger_count) ==
    LET distance_km == distance_meters   \* / MetersPerKm, kept as the numerator
        base_fare == BaseFare
        additional_fare == round(additional_km(distance_km) * PerKmFare, MetersPerKm)
        additional_passenger_fare == (passenger_count - 1) * PerPassengerFare
        total_fare == base_fare + additional_fare + additional_passenger_fare
    IN  round(total_fare, 1)

----------------------------------------------------------------------------
(* The bucket key ("geohash"), create_booking.py:53 and                    *)
(* create_group_booking.py:79:                                             *)
(*     f"{int(pickup_lat * 1000)}-{int(pickup_lng * 1000)}"                *)

GeohashFactor == 1000

\* A coordinate c stands for c / CoordDenominator degrees (four decimals).
CoordDenominator == 10 * GeohashFactor

\* Rounding to the cell below (math.floor) instead of toward zero.
int_floor(num, den) == num \div den

\* Python int(num/den) for den > 0: the fraction is dropped, toward zero.
int(num, den) == IF num >= 0 THEN num \div den ELSE -((-num) \div den)

Digit(d) == CASE d = 0 -> "0" [] d = 1 -> "1" [] d = 2 -> "2" [] d = 3 -> "3"
              [] d = 4 -> "4" [] d = 5 -> "5" [] d = 6 -> "6" [] d = 7 -> "7"
              [] d = 8 -> "8" [] d = 9 -> "9"

RECURSIVE Digits(_)
Digits(n) == IF n < 10 THEN <<Digit(n)>> ELSE Append(Digits(n \div 10), Digit(n % 10))

\* str(n) of an integer, as f"{n}" formats it.
str(n) == IF n < 0 THEN <<"-">> \o Digits(-n) ELSE Digits(n)

geohash(pickup_lat, pickup_lng) ==
    str(int(pickup_lat * GeohashFactor, CoordDenominator))
        \o <<"-">> \o str(int(pickup_lng * GeohashFactor, CoordDenominator))

\* f"{x:.6f}" of a coordinate: its value in millionths of a degree.
fmt6(c) == c * (1000000 \div CoordDenominator)

----------------------------------------------------------------------------
(* The external collaborators *)

\* A generator that hands out the same value again.
uuid4_repeating(n) == 1

\* str(uuid.uuid4()) when n values were handed out: a value never seen before.
uuid4(n) == n + 1

\* DocumentReference.set(data): the document at id becomes data.
set(collection, id, data) ==
    [k \in (DOMAIN collection) \cup {id} |-> IF k = id THEN data ELSE collection[k]]

\* Python's None, and the value of a field that holds it.
None == "None"

\* DocumentReference.get(): a snapshot; to_dict() of a missing document is None.
get(collection, id) ==
    IF id \in DOMAIN collection
    THEN [exists |-> TRUE, to_dict |-> collection[id]]
    ELSE [exists |-> FALSE, to_dict |-> [missing |-> None]]

\* A check that takes every snapshot for an existing document.
exists_always(snapshot) == TRUE

\* passenger.exists
exists(snapshot) == snapshot.exists

SERVER_TIMESTAMP == "SERVER_TIMESTAMP"

\* What a call returns from its except clause: str(e) of the exception raised
\* at the step named by fault.
Raised(fault) == [success |-> FALSE, error |-> <<"exception", fault>>]

----------------------------------------------------------------------------
(* create_passenger.py:15-57 *)

passenger_document(passenger_id, phone_number) ==
    [id |-> passenger_id,
     name |-> "Test Passenger",
     email |-> None,
     phoneNumber |-> phone_number,
     sex |-> "Male",
     guardian |-> [name |-> "Test Guardian",
                   relationship |-> "Parent",
                   phoneNumber |-> "09670575500"],
     createdAt |-> SERVER_TIMESTAMP,
     updatedAt |-> SERVER_TIMESTAMP]

\* fault: "none", or "set" when passenger_ref.set raises.
CreatePassenger(phone_number, fault) ==
    /\ calls < MaxCalls
    /\ calls' = calls + 1
    /\ call' = [op |-> "create_passenger", phone_number |-> phone_number]
    /\ LET passenger_id == uuid4(uuidCount)
       IN  /\ uuidCount' = uuidCount + 1
           /\ IF fault = "set"
              THEN /\ result' = Raised(fault)
                   /\ UNCHANGED passengers
              ELSE /\ passengers' = set(passengers, passenger_id,
                                        passenger_document(passenger_id, phone_number))
                   /\ result' = [success |-> TRUE,
                                 passengerId |-> passenger_id,
                                 message |-> "Passenger account created successfully"]
    /\ UNCHANGED <<bookings, reads, writes, identity>>

----------------------------------------------------------------------------
(* create_booking.py:21-107 *)

\* The guardianNotification sub-record, present when the passenger document
\* has a guardian with a phone number.
guardianNotification(data) ==
    [name |-> data.guardian.name,
     phoneNumber |-> data.guardian.phoneNumber,
     relationship |-> data.guardian.relationship,
     notified |-> FALSE]

HasGuardianPhone(data) ==
    "guardian" \in DOMAIN data /\ data.guardian.phoneNumber # ""

\* A booking that starts out already taken by a driver.
status_accepted == "accepted"

\* 'status': 'pending'
status_pending == "pending"

pickupLocation(pickup_lat, pickup_lng) ==
    [latitude |-> pickup_lat,
     longitude |-> pickup_lng,
     name |-> <<"Pickup at", fmt6(pickup_lat), fmt6(pickup_lng)>>,
     geohash |-> geohash(pickup_lat, pickup_lng)]

dropoffLocation(dropoff_lat, dropoff_lng) ==
    [latitude |-> dropoff_lat,
     longitude |-> dropoff_lng,
     name |-> <<"Dropoff at", fmt6(dropoff_lat), fmt6(dropoff_lng)>>]

\* A record1 extended by the fields of record2.
Merge(record1, record2) ==
    [f \in (DOMAIN record1) \cup (DOMAIN record2) |->
        IF f \in DOMAIN record2 THEN record2[f] ELSE record1[f]]

WithGuardian(data, passenger) ==
    IF HasGuardianPhone(passenger)
    THEN Merge(data, [guardianNotification |-> guardianNotification(passenger)])
    ELSE data

\* booking_data of create_booking; the three randint draws are arguments.
booking_data(booking_id, passenger_id, passenger, pickup_lat, pickup_lng, dropoff_lat, dropoff_lng, distance, duration, fare) ==
    WithGuardian(
        [id |-> booking_id,
         passengerId |-> passenger_id,
         passengerName |-> passenger.name,
         passengerPhone |-> passenger.phoneNumber,
         pickupLocation |-> pickupLocation(pickup_lat, pickup_lng),
         dropoffLocation |-> dropoffLocation(dropoff_lat, dropoff_lng),
         status |-> status_pending,
         dateTime |-> SERVER_TIMESTAMP,
         estimatedDistance |-> distance,
         estimatedDuration |-> duration,
         estimatedFare |-> fare,
         driverId |-> None,
         createdAt |-> SERVER_TIMESTAMP,
         updatedAt |-> SERVER_TIMESTAMP],
        passenger)

NotFound(passenger_id) ==
    [success |-> FALSE,
     error |-> <<"Passenger with ID", passenger_id, "does not exist">>]

\* fault: "none"; "get" when passenger_ref.get raises; "set" when
\* booking_ref.set raises and nothing is written.
CreateBooking(passenger_id, pickup_lat, pickup_lng, dropoff_lat, dropoff_lng, distance, duration, fare, fault) ==
    /\ calls < MaxCalls
    /\ fault \in {"none", "get", "set"}
    /\ calls' = calls + 1
    /\ call' = [op |-> "create_booking",
                passenger_id |-> passenger_id,
                pickup_lat |-> pickup_lat, pickup_lng |-> pickup_lng,
                dropoff_lat |-> dropoff_lat, dropoff_lng |-> dropoff_lng]
    /\ reads' = reads + 1
    /\ UNCHANGED <<passengers, identity>>
    /\ IF fault = "get"
       THEN /\ result' = Raised(fault)
            /\ UNCHANGED <<bookings, uuidCount, writes>>
       ELSE LET passenger == get(passengers, passenger_id) IN
       IF ~exists(passenger)
       THEN /\ result' = NotFound(passenger_id)
            /\ UNCHANGED <<bookings, uuidCount, writes>>
       ELSE LET passenger_data == passenger.to_dict
                booking_id == uuid4(uuidCount)
            IN  /\ uuidCount' = uuidCount + 1
                /\ IF "missing" \in DOMAIN passenger_data
                   THEN \* passenger_data.get(...) on None: AttributeError
                        /\ result' = Raised("booking_data")
                        /\ UNCHANGED <<bookings, writes>>
                   ELSE IF fault = "set"
                   THEN /\ result' = Raised(fault)
                        /\ UNCHANGED <<bookings, writes>>
                   ELSE /\ bookings' = set(bookings, booking_id,
                                           booking_data(booking_id, passenger_id,
                                                        passenger_data,
                                                        pickup_lat, pickup_lng,
                                                        dropoff_lat, dropoff_lng,
                                                        distance, duration, fare))
                        /\ writes' = writes + 1
                        /\ result' = [success |-> TRUE,
                                      bookingId |-> booking_id,
                                      message |-> "Booking created successfully"]

----------------------------------------------------------------------------
(* create_group_booking.py:42-145 *)

\* A validation that lets a count of four through.
ValidCount_upto4(passenger_count) == passenger_count \in {2, 3, 4}

\* passenger_count in [2, 3]
ValidCount(passenger_count) == passenger_count \in {2, 3}

\* booking_data of create_group_booking; estimated_distance and the duration
\* draw are arguments, estimated_fare is the fare computed from the former.
group_booking_data(booking_id, passenger_id, passenger, pickup_lat, pickup_lng, dropoff_lat, dropoff_lng, passenger_count, estimated_distance, estimated_fare, duration) ==
    WithGuardian(
        [id |-> booking_id,
         passengerId |-> passenger_id,
         passengerName |-> passenger.name,
         passengerPhone |-> passenger.phoneNumber,
         passengerCount |-> passenger_count,
         pickupLocation |-> pickupLocation(pickup_lat, pickup_lng),
         dropoffLocation |-> dropoffLocation(dropoff_lat, dropoff_lng),
         status |-> status_pending,
         dateTime |-> SERVER_TIMESTAMP,
         estimatedDistance |-> estimated_distance,
         estimatedDuration |-> duration,
         estimatedFare |-> estimated_fare,
         isGroupBooking |-> TRUE,
         driverId |-> None,
         createdAt |-> SERVER_TIMESTAMP,
         updatedAt |-> SERVER_TIMESTAMP],
        passenger)

\* fault: "none"; "get" when passenger_ref.get raises; "set" when
\* booking_ref.set raises and nothing is written; "print" when the print of
\* the peso sign (line 130) raises UnicodeEncodeError on a standard output
\* that cannot encode it, which is after the write.
CreateGroupBooking(passenger_id, pickup_lat, pickup_lng, dropoff_lat, dropoff_lng, passenger_count, estimated_distance, duration, fault) ==
    /\ calls < MaxCalls
    /\ fault \in {"none", "get", "set", "print"}
    /\ calls' = calls + 1
    /\ call' = [op |-> "create_group_booking",
                passenger_id |-> passenger_id,
                pickup_lat |-> pickup_lat, pickup_lng |-> pickup_lng,
                dropoff_lat |-> dropoff_lat, dropoff_lng |-> dropoff_lng,
                passenger_count |-> passenger_count]
    /\ UNCHANGED <<passengers, identity>>
    /\ IF ~ValidCount(passenger_count)
       THEN /\ result' = [success |-> FALSE,
                          error |-> <<"Passenger count must be 2 or 3">>]
            /\ UNCHANGED <<bookings, uuidCount, reads, writes>>
       ELSE IF fault = "get"
       THEN /\ reads' = reads + 1
            /\ result' = Raised(fault)
            /\ UNCHANGED <<bookings, uuidCount, writes>>
       ELSE LET passenger == get(passengers, passenger_id) IN
       IF ~exists(passenger)
       THEN /\ reads' = reads + 1
            /\ result' = NotFound(passenger_id)
            /\ UNCHANGED <<bookings, uuidCount, writes>>
       ELSE LET passenger_data == passenger.to_dict
                booking_id == uuid4(uuidCount)
                estimated_fare == calculate_fare(estimated_distance, passenger_count)
            IN  /\ reads' = reads + 1
                /\ uuidCount' = uuidCount + 1
                /\ IF "missing" \in DOMAIN passenger_data
                   THEN \* passenger_data.get(...) on None: AttributeError
                        /\ result' = Raised("booking_data")
                        /\ UNCHANGED <<bookings, writes>>
                   ELSE IF fault = "set"
                   THEN /\ result' = Raised(fault)
                        /\ UNCHANGED <<bookings, writes>>
                   ELSE /\ bookings' = set(bookings, booking_id,
                                           group_booking_data(booking_id, passenger_id,
                                                              passenger_data,
                                                              pickup_lat, pickup_lng,
                                                              dropoff_lat, dropoff_lng,
                                                              passenger_count,
                                                              estimated_distance,
                                                              estimated_fare, duration))
                        /\ writes' = writes + 1
                        /\ result' =
                             IF fault = "print"
                             THEN Raised(fault)
                             ELSE [success |-> TRUE,
                                   bookingId |-> booking_id,
                                   passengerCount |-> passenger_count,
                                   estimatedFare |-> estimated_fare,
                                   message |-> "Group booking created successfully"]

----------------------------------------------------------------------------
(* The scripts run one after another against one store.  The random draws  *)
(* of a call are its inputs, taken at the ends of the ranges the code      *)
(* draws from.                                                             *)

Distances == {1000, 5000}    \* random.randint(1000, 5000)
Durations == {300, 1200}     \* random.randint(300, 1200)
Fares == {25, 100}           \* random.randint(25, 100)

\* (14.1234, 121.5678) and a point of another cell, (14.1250, 121.5678)
Pickups == {<<141234, 1215678>>, <<141250, 1215678>>}
Dropoffs == {<<141300, 1215700>>}

\* The passengers on file and an identifier that uuid4 never hands out.
PassengerIds == (DOMAIN passengers) \cup {0}

Init ==
    /\ EmptyStore
    /\ call = [op |-> "none"]
    /\ result = NoResult

Next ==
    \/ \E fault \in {"none", "set"} : CreatePassenger("09670575500", fault)
    \/ \E passenger_id \in PassengerIds, pickup \in Pickups, dropoff \in Dropoffs,
          distance \in Distances, duration \in Durations, fare \in Fares,
          fault \in {"none", "get", "set"} :
          CreateBooking(passenger_id, pickup[1], pickup[2], dropoff[1], dropoff[2],
                        distance, duration, fare, fault)
    \/ \E passenger_id \in PassengerIds, pickup \in Pickups, dropoff \in Dropoffs,
          passenger_count \in 0..MaxCount,
          distance \in Distances, duration \in Durations,
          fault \in {"none", "get", "set", "print"} :
          CreateGroupBooking(passenger_id, pickup[1], pickup[2], dropoff[1], dropoff[2],
                             passenger_count, distance, duration, fault)

Spec == Init /\ [][Next]_vars

----------------------------------------------------------------------------
(* The fare function on its own: Init draws the arguments, the action      *)
(* applies the function.                                                   *)

InitFare ==
    /\ EmptyStore
    /\ \E distance_meters \in 0..MaxDistance, passenger_count \in 1..3 :
          call = [op |-> "calculate_fare",
                  distance_meters |-> distance_meters,
                  passenger_count |-> passenger_count]
    /\ result = NoResult

CalculateFare ==
    /\ call.op = "calculate_fare"
    /\ result = NoResult
    /\ result' = [returned |-> TRUE,
                  fare |-> calculate_fare(call.distance_meters, call.passenger_count)]
    /\ UNCHANGED <<store, call>>

NextFare == CalculateFare

SpecFare == InitFare /\ [][NextFare]_vars

FareReturned == call.op = "calculate_fare" /\ result.returned

----------------------------------------------------------------------------
\* C1: for every distance in 0..MaxDistance and every passenger count in 1..3
\* the fare is 25, plus the integer nearest to 8 pesos per km beyond the
\* first km, plus 10 per additional passenger; fare(1000,2) = 35,
\* fare(2000,2) = 43 and fare(2500,3) = 57.
C1_FareFormula ==
    FareReturned =>
        LET d == call.distance_meters
            p == call.passenger_count
            beyond == IF d > 1000 THEN (d - 1000) * 8 ELSE 0  \* pesos * 1000
        IN  /\ \E n \in 0..(8 * MaxDistance) :
                  /\ 2 * (beyond - 1000 * n) <= 1000
                  /\ 2 * (1000 * n - beyond) <= 1000
                  /\ result.fare = 25 + n + (p - 1) * 10
            /\ (d = 1000 /\ p = 2) => result.fare = 35
            /\ (d = 2000 /\ p = 2) => result.fare = 43
            /\ (d = 2500 /\ p = 3) => result.fare = 57

C1_Witness ==
    /\ FareReturned
    /\ call.distance_meters = 2500
    /\ call.passenger_count = 3
    /\ result.fare = 57

\* C2: for 2 or 3 passengers and every distance in 0..MaxDistance the fare is
\* at least 25 plus 10 per additional passenger, also below 1000 meters.
C2_FareLowerBound ==
    (FareReturned /\ call.passenger_count \in {2, 3}) =>
        result.fare >= 25 + (call.passenger_count - 1) * 10

C2_Witness ==
    /\ FareReturned
    /\ call.passenger_count = 3
    /\ call.distance_meters = 400
    /\ result.fare = 45

\* num/den rounded to the nearest integer, a tie going up.
HalfUp(num, den) == (2 * num + den) \div (2 * den)

\* num/den rounded to the nearest integer, a tie going to the even neighbour.
HalfEven(num, den) ==
    LET up == HalfUp(num, den)
    IN  IF 2 * num + den = 2 * den * up /\ up % 2 = 1 THEN up - 1 ELSE up

\* C12: for every distance in 0..MaxDistance and every passenger count in
\* 1..3 the per-km term (distance - 1000) * 8 / 1000 is never halfway between
\* two integers, so the fare is the same with ties rounded up and with ties
\* rounded to even, and it is the whole-number total: the second rounding
\* changes nothing.
C12_NoTieInFare ==
    FareReturned =>
        LET d == call.distance_meters
            p == call.passenger_count
            term == (d - 1000) * 8                       \* pesos * 1000
            beyond == IF d > 1000 THEN term ELSE 0
        IN  /\ 2 * (term % 1000) # 1000
            /\ HalfUp(beyond, 1000) = HalfEven(beyond, 1000)
            /\ result.fare = 25 + HalfUp(beyond, 1000) + (p - 1) * 10
            /\ result.fare = 25 + HalfEven(beyond, 1000) + (p - 1) * 10

\* The distance next to a tie: 1063 m is 0.504 pesos beyond the base fare.
C12_Witness ==
    /\ FareReturned
    /\ call.distance_meters = 1063
    /\ call.passenger_count = 1
    /\ result.fare = 26

----------------------------------------------------------------------------
(* The bucket key on its own: Init draws the arguments of a create_booking *)
(* call and of a create_group_booking call by one passenger, the action    *)
(* builds the booking_data of both.  Coordinates run over every fixed-     *)
(* point value within MaxCoord units of zero and over the points           *)
(* (14.1234, 121.5678), (14.1239, 121.5671) and (14.1250, 121.5678).       *)

WideLats == (-MaxCoord..MaxCoord) \cup {141234, 141239, 141250}
WideLngs == (-MaxCoord..MaxCoord) \cup {1215678, 1215671}
FewLats == {-5, 5, 141234}
FewLngs == {-5, 5, 1215678}
GeoPickups == (WideLats \X FewLngs) \cup (FewLats \X WideLngs)
GeoDropoffs == {<<141300, 1215700>>, <<-5, 5>>}

InitGeo ==
    /\ passengers = set(<<>>, uuid4(0), passenger_document(uuid4(0), "09670575500"))
    /\ bookings = <<>>
    /\ uuidCount = 1
    /\ reads = 0
    /\ writes = 0
    /\ calls = 1
    /\ users = <<>>
    /\ drivers = <<>>
    /\ wallets = <<>>
    /\ \E pickup1 \in GeoPickups, pickup2 \in GeoPickups,
          dropoff2 \in GeoDropoffs, passenger_count \in {2, 3} :
          call = [op |-> "booking_data",
                  passenger_id |-> uuid4(0),
                  pickup1 |-> pickup1, dropoff1 |-> <<141300, 1215700>>,
                  pickup2 |-> pickup2, dropoff2 |-> dropoff2,
                  passenger_count |-> passenger_count]
    /\ result = NoResult

BuildBookingData ==
    /\ call.op = "booking_data"
    /\ result = NoResult
    /\ LET passenger == get(passengers, call.passenger_id).to_dict
       IN  result' =
             [returned |-> TRUE,
              single |-> booking_data(uuid4(uuidCount), call.passenger_id, passenger,
                                      call.pickup1[1], call.pickup1[2],
                                      call.dropoff1[1], call.dropoff1[2],
                                      1000, 300, 25),
              group |-> group_booking_data(uuid4(uuidCount + 1), call.passenger_id,
                                           passenger,
                                           call.pickup2[1], call.pickup2[2],
                                           call.dropoff2[1], call.dropoff2[2],
                                           call.passenger_count, 1000,
                                           calculate_fare(1000, call.passenger_count),
                                           300)]
    /\ UNCHANGED <<store, call>>

NextGeo == BuildBookingData

SpecGeo == InitGeo /\ [][NextGeo]_vars

----------------------------------------------------------------------------
(* create_verified_driver.py:16-98.  A phone number is a sequence of       *)
(* characters.  firestore.SERVER_TIMESTAMP is stored as the time of the    *)
(* write, and every call runs later than the one before it; set() without  *)
(* merge replaces the whole document.                                      *)

\* A phone number handed on as it was given.
e164_as_given(phone_number) == phone_number

\* if not phone_number.startswith('+'): phone_number = '+' + phone_number
e164(phone_number) ==
    IF Len(phone_number) > 0 /\ Head(phone_number) = "+"
    THEN phone_number
    ELSE <<"+">> \o phone_number

\* auth.get_user_by_phone_number: the uids of the users with that number;
\* none is UserNotFoundError.
get_user_by_phone_number(phone_number) ==
    {uid \in DOMAIN users : users[uid].phone_number = phone_number}

\* The uid that auth.create_user gives a new user: one no user has.
new_uid == Cardinality(DOMAIN users) + 1

\* The server's time at the writes of the call that is running.
server_time == calls + 1

driver_data(driver_id, name, phone_number) ==
    [id |-> driver_id,
     name |-> name,
     profilePicture |-> None,
     email |-> None,
     sex |-> "Male",
     dateOfBirth |-> "1990-01-01",
     phoneNumber |-> phone_number,
     plateNumber |-> "ABC123",
     licenseNumber |-> "LIC123456",
     permitDocument |-> None,
     isVerified |-> TRUE,
     permitVerified |-> TRUE,
     status |-> "offline",
     createdAt |-> server_time,
     updatedAt |-> server_time]

wallet_data(driver_id) ==
    [driverId |-> driver_id,
     balance |-> 300,
     createdAt |-> server_time,
     updatedAt |-> server_time]

driver_claims == [role |-> "driver", verified |-> TRUE]

\* auth.set_custom_user_claims(uid, claims)
set_custom_user_claims(auth_users, uid, claims) ==
    [auth_users EXCEPT ![uid].custom_claims = claims]

\* fault: "none", or the step that raises: "auth" (the lookup fails with
\* another error than UserNotFoundError, or create_user fails), "drivers"
\* (driver_ref.set), "wallets" (wallet_ref.set), "claims"
\* (set_custom_user_claims).  Every step before the one that raises has
\* taken effect.
CreateVerifiedDriver(phone_number, name, fault) ==
    /\ calls < MaxCalls
    /\ fault \in {"none", "auth", "drivers", "wallets", "claims"}
    /\ calls' = calls + 1
    /\ call' = [op |-> "create_verified_driver",
                phone_number |-> phone_number, name |-> name]
    /\ UNCHANGED <<passengers, bookings, uuidCount, reads, writes>>
    /\ IF fault = "auth"
       THEN /\ result' = Raised(fault)
            /\ UNCHANGED identity
       ELSE LET phone == e164(phone_number)
                found == get_user_by_phone_number(phone)
                driver_id == IF found # {} THEN CHOOSE uid \in found : TRUE ELSE new_uid
                created == IF found # {}
                           THEN users
                           ELSE set(users, driver_id,
                                    [uid |-> driver_id,
                                     phone_number |-> phone,
                                     display_name |-> name,
                                     custom_claims |-> [role |-> None, verified |-> FALSE]])
                reached == CASE fault = "drivers" -> 0
                             [] fault = "wallets" -> 1
                             [] fault = "claims" -> 2
                             [] OTHER -> 3
            IN  /\ drivers' = IF reached >= 1
                              THEN set(drivers, driver_id,
                                       driver_data(driver_id, name, phone))
                              ELSE drivers
                /\ wallets' = IF reached >= 2
                              THEN set(wallets, driver_id, wallet_data(driver_id))
                              ELSE wallets
                /\ users' = IF reached >= 3
                            THEN set_custom_user_claims(created, driver_id, driver_claims)
                            ELSE created
                /\ result' = IF reached >= 3
                             THEN [success |-> TRUE,
                                   driverId |-> driver_id,
                                   phoneNumber |-> phone,
                                   message |-> "Verified driver account and wallet created successfully"]
                             ELSE Raised(fault)

\* --phone with and without the leading '+', and another number; --name
DriverPhones == {<<"+", "6", "3", "9">>, <<"6", "3", "9">>, <<"+", "6", "4", "0">>}
DriverNames == {"Test Driver", "Juan"}

NextDriver ==
    \E phone_number \in DriverPhones, name \in DriverNames, fault \in {"none", "auth", "drivers", "wallets", "claims"} :
       CreateVerifiedDriver(phone_number, name, fault)

SpecDriver == Init /\ [][NextDriver]_vars

----------------------------------------------------------------------------
(* Claims about the scripts (Spec) *)

BookingOps == {"create_booking", "create_group_booking"}

\* The step is a call of one of the two booking functions.
BookingCall == calls' = calls + 1 /\ call'.op \in BookingOps

\* The last call was a booking call.
BookingReturned == calls > 0 /\ call.op \in BookingOps

\* Every document that was in the bookings collection is still there, unchanged.
BookingsKept ==
    \A id \in DOMAIN bookings : id \in DOMAIN bookings' /\ bookings'[id] = bookings[id]

\* C3: a group booking call whose passenger count is outside {1,2,3} returns
\* the validation failure; it reads no passenger document, generates no
\* identifier and writes no booking.
C3_InvalidCountRejected ==
    [][(BookingCall /\ call'.op = "create_group_booking"
                    /\ call'.passenger_count \notin {1, 2, 3})
        => /\ result'.success = FALSE
           /\ result'.error = <<"Passenger count must be 2 or 3">>
           /\ reads' = reads
           /\ uuidCount' = uuidCount
           /\ writes' = writes
           /\ bookings' = bookings]_vars

\* A call with four passengers for a passenger who exists was refused.
C3_Witness ==
    /\ BookingReturned
    /\ call.op = "create_group_booking"
    /\ call.passenger_count = 4
    /\ call.passenger_id \in DOMAIN passengers
    /\ result.success = FALSE
    /\ result.error = <<"Passenger count must be 2 or 3">>

\* C4 as stated (read for calls in which no step raises): in both booking
\* functions a passenger identifier without a document yields the not-found
\* failure, no identifier is generated and the bookings are left as they were.
C4_UnknownPassengerAlwaysNotFound ==
    [][(BookingCall /\ call'.passenger_id \notin DOMAIN passengers
                    /\ ~(result'.error[1] = "exception" /\ Len(result'.error) = 2))
        => /\ result' = [success |-> FALSE,
                         error |-> <<"Passenger with ID", call'.passenger_id,
                                     "does not exist">>]
           /\ uuidCount' = uuidCount
           /\ bookings' = bookings]_vars

\* C4 as amended: a booking call for a passenger identifier without a document
\* fails, generates no identifier and leaves the bookings as they were; the
\* failure is the not-found one when the call gets as far as the lookup's
\* answer, that is when the count of a group booking is 2 or 3 and the read of
\* the directory does not raise.
C4_UnknownPassengerFails ==
    [][(BookingCall /\ call'.passenger_id \notin DOMAIN passengers)
        => /\ result'.success = FALSE
           /\ uuidCount' = uuidCount
           /\ writes' = writes
           /\ bookings' = bookings
           /\ ((/\ call'.op = "create_group_booking" => call'.passenger_count \in {2, 3}
                /\ result'.error # <<"exception", "get">>)
               => /\ result'.error = <<"Passenger with ID", call'.passenger_id,
                                       "does not exist">>
                  /\ reads' = reads + 1)]_vars

\* A group booking for an unknown passenger was refused as not found while
\* the collection already held a booking.
C4_Witness ==
    /\ BookingReturned
    /\ call.op = "create_group_booking"
    /\ call.passenger_id \notin DOMAIN passengers
    /\ result.error = <<"Passenger with ID", call.passenger_id, "does not exist">>
    /\ bookings # <<>>

\* C5: a booking call that returns success = False, for whatever cause, has
\* created no booking record.
C5_FailureCreatesNothing ==
    [][(BookingCall /\ result'.success = FALSE) => bookings' = bookings]_vars

\* C6: a booking call that returns success returns the generated identifier
\* and the computed fare, which are the key and the estimatedFare of the
\* record it stored.
C6_SuccessReturnsIdAndFare ==
    (BookingReturned /\ result.success)
        => /\ {"bookingId", "estimatedFare"} \subseteq DOMAIN result
           /\ result.bookingId \in DOMAIN bookings
           /\ bookings[result.bookingId].id = result.bookingId
           /\ bookings[result.bookingId].estimatedFare = result.estimatedFare

\* C8: every record of the bookings collection carries a passenger count in
\* {1,2,3}: 1 when it is not a group booking.
C8_RecordsCarryCount ==
    \A id \in DOMAIN bookings :
        /\ "passengerCount" \in DOMAIN bookings[id]
        /\ bookings[id].passengerCount \in {1, 2, 3}
        /\ "isGroupBooking" \notin DOMAIN bookings[id] => bookings[id].passengerCount = 1

\* C9: every booking record is pending and without a driver, in every state,
\* and no step changes the status or the driver of a record that exists.
C9_PendingUnassigned ==
    /\ [](\A id \in DOMAIN bookings :
              bookings[id].status = "pending" /\ bookings[id].driverId = None)
    /\ [][\A id \in DOMAIN bookings :
              /\ id \in DOMAIN bookings'
              /\ bookings'[id].status = bookings[id].status
              /\ bookings'[id].driverId = bookings[id].driverId]_vars

\* A single and a group booking are stored, both pending and unassigned.
C9_Witness ==
    /\ \E id \in DOMAIN bookings : "isGroupBooking" \in DOMAIN bookings[id]
    /\ \E id \in DOMAIN bookings : "isGroupBooking" \notin DOMAIN bookings[id]
    /\ \A id \in DOMAIN bookings :
           bookings[id].status = "pending" /\ bookings[id].driverId = None

\* C10: a call writes at most one booking document, under the identifier it
\* generated, whose id field is its key; it overwrites no earlier document, so
\* there are as many booking records as store writes.
C10_OneRecordPerWrite ==
    /\ [](/\ Cardinality(DOMAIN bookings) = writes
          /\ \A id \in DOMAIN bookings : bookings[id].id = id)
    /\ [][/\ BookingsKept
          /\ Cardinality((DOMAIN bookings') \ (DOMAIN bookings)) = writes' - writes
          /\ writes' - writes \in {0, 1}
          /\ \A id \in (DOMAIN bookings') \ (DOMAIN bookings) :
                 /\ uuidCount' = uuidCount + 1
                 /\ id \notin 1..uuidCount
                 /\ bookings'[id].id = id]_vars

\* Two writes were made, one of them in a call that reported a failure, and
\* two records are stored.
C10_Witness ==
    /\ writes = 2
    /\ Cardinality(DOMAIN bookings) = 2
    /\ BookingReturned
    /\ result.success = FALSE

----------------------------------------------------------------------------
(* Claims about the bucket key (SpecGeo) *)

\* A 0.001-degree cell is CellUnits units wide.
CellUnits == CoordDenominator \div 1000

\* The cell of the grid [k/1000, (k+1)/1000) that holds coordinate c.
FloorCell(c) == c \div CellUnits

\* Two coordinates in one cell of the grid that int() makes: the cells
\* [k/1000, (k+1)/1000) for k >= 1, their mirror images below zero, and the
\* one cell (-0.001, 0.001) around zero.
SameCellTowardZero(a, b) ==
    \/ -CellUnits < a /\ a < CellUnits /\ -CellUnits < b /\ b < CellUnits
    \/ a >= CellUnits /\ b >= CellUnits /\ a \div CellUnits = b \div CellUnits
    \/ a <= -CellUnits /\ b <= -CellUnits /\ (-a) \div CellUnits = (-b) \div CellUnits

Built == call.op = "booking_data" /\ result.returned

Key1 == result.single.pickupLocation.geohash
Key2 == result.group.pickupLocation.geohash

\* The points (14.1234, 121.5678) and (14.1239, 121.5671) share a key and
\* (14.1250, 121.5678) has another one.
GeoExamples ==
    /\ (call.pickup1 = <<141234, 1215678>> /\ call.pickup2 = <<141239, 1215671>>)
           => Key1 = Key2
    /\ (call.pickup1 = <<141234, 1215678>> /\ call.pickup2 = <<141250, 1215678>>)
           => Key1 # Key2

\* C7 as stated: the key depends on the pickup only, and two pickups, of
\* either sign, have the same key exactly when they lie in the same
\* 0.001-degree cell of latitude and of longitude.
C7_SameKeyIffSameCell ==
    Built =>
        /\ (Key1 = Key2) <=> (/\ FloorCell(call.pickup1[1]) = FloorCell(call.pickup2[1])
                              /\ FloorCell(call.pickup1[2]) = FloorCell(call.pickup2[2]))
        /\ GeoExamples

\* C7 as amended: the key depends on the pickup only, and two pickups have the
\* same key exactly when their latitudes and their longitudes agree once
\* truncated toward zero to three decimals: the same 0.001-degree cell for
\* coordinates that are not negative, its mirror image for negative ones, and
\* one cell (-0.001, 0.001) of twice the width around zero.
C7_SameKeyIffSameTruncation ==
    Built =>
        /\ (Key1 = Key2) <=> (/\ SameCellTowardZero(call.pickup1[1], call.pickup2[1])
                              /\ SameCellTowardZero(call.pickup1[2], call.pickup2[2]))
        /\ (\A c \in {call.pickup1[1], call.pickup1[2],
                      call.pickup2[1], call.pickup2[2]} : c >= 0)
               => ((Key1 = Key2) <=>
                      (/\ FloorCell(call.pickup1[1]) = FloorCell(call.pickup2[1])
                       /\ FloorCell(call.pickup1[2]) = FloorCell(call.pickup2[2])))
        /\ GeoExamples

\* Two bookings with different dropoffs and passenger counts, picked up on
\* either side of zero latitude, got the same key.
C7_Witness ==
    /\ Built
    /\ call.pickup1 = <<-5, 1215678>>
    /\ call.pickup2 = <<5, 1215678>>
    /\ call.dropoff1 # call.dropoff2
    /\ Key1 = Key2
    /\ Key1 = <<"0", "-", "1", "2", "1", "5", "6", "7">>

----------------------------------------------------------------------------
(* Claims about create_verified_driver (SpecDriver) *)

\* A phone number without its leading '+': what two spellings of one number
\* have in common.
Bare(phone_number) ==
    IF Len(phone_number) > 0 /\ Head(phone_number) = "+"
    THEN Tail(phone_number)
    ELSE phone_number

DriverCall == calls' = calls + 1 /\ call'.op = "create_verified_driver"

DriverReturned == calls > 0 /\ call.op = "create_verified_driver"

\* No two auth users have the same normalized phone number.
OneUserPerPhone ==
    \A u1 \in DOMAIN users, u2 \in DOMAIN users :
        Bare(users[u1].phone_number) = Bare(users[u2].phone_number) => u1 = u2

\* A call that returned success returned the uid of the user with its phone
\* number, and that uid keys a drivers document, a wallets document with a
\* balance of 300, and a user with the driver claims.
SuccessMeansComplete ==
    (DriverReturned /\ result.success) =>
        LET id == result.driverId
        IN  /\ id \in DOMAIN users
            /\ users[id].uid = id
            /\ Bare(users[id].phone_number) = Bare(call.phone_number)
            /\ users[id].custom_claims = [role |-> "driver", verified |-> TRUE]
            /\ id \in DOMAIN drivers
            /\ drivers[id].id = id
            /\ id \in DOMAIN wallets
            /\ wallets[id].driverId = id
            /\ wallets[id].balance = 300

\* Users stay, with their phone numbers, and a call that returns success
\* returns the uid of the user who already had its phone number: so every
\* success for one phone number returns the same driverId.
SameDriverIdEveryTime ==
    /\ \A u \in DOMAIN users :
           u \in DOMAIN users' /\ users'[u].phone_number = users[u].phone_number
    /\ (DriverCall /\ result'.success) =>
           \A u \in DOMAIN users :
               Bare(users[u].phone_number) = Bare(call'.phone_number)
                   => result'.driverId = u

\* The step repeats a call: it is a call that returns success, for a phone
\* number whose user, drivers document and wallets document are those that a
\* successful call left.
RepeatedCall ==
    /\ DriverCall
    /\ result'.success
    /\ \E u \in DOMAIN users :
           /\ Bare(users[u].phone_number) = Bare(call'.phone_number)
           /\ users[u].custom_claims = [role |-> "driver", verified |-> TRUE]
           /\ u \in DOMAIN drivers
           /\ u \in DOMAIN wallets

\* A document but for the two timestamps that the server fills in.
Untimed(doc) == [f \in (DOMAIN doc) \ {"createdAt", "updatedAt"} |-> doc[f]]

\* C11 as stated: at most one auth user per normalized phone number; every
\* successful call for a phone returns the same driverId, the user's uid, and
\* leaves a drivers document, a wallets document with balance 300 and the
\* driver claims under that uid; a repeated call (same phone, same name)
\* leaves the state that a single call leaves.
C11_RepeatedCallSameState ==
    /\ [](OneUserPerPhone /\ SuccessMeansComplete)
    /\ [][/\ SameDriverIdEveryTime
          /\ (RepeatedCall /\ drivers[result'.driverId].name = call'.name)
                 => identity' = identity]_vars

\* C11 as amended: the same, except that a repeated call leaves the state of
\* a single call only up to the createdAt and updatedAt of the drivers and
\* the wallets document, which it rewrites with the later time (and the
\* drivers document takes the name of the later call; the auth user keeps
\* the display name of the first).
C11_RepeatedCallSameStateButTimestamps ==
    /\ [](OneUserPerPhone /\ SuccessMeansComplete)
    /\ [][/\ SameDriverIdEveryTime
          /\ RepeatedCall =>
                LET id == result'.driverId
                IN  /\ users' = users
                    /\ DOMAIN drivers' = DOMAIN drivers
                    /\ DOMAIN wallets' = DOMAIN wallets
                    /\ \A d \in (DOMAIN drivers) \ {id} : drivers'[d] = drivers[d]
                    /\ \A w \in (DOMAIN wallets) \ {id} : wallets'[w] = wallets[w]
                    /\ Untimed(wallets'[id]) = Untimed(wallets[id])
                    /\ Untimed([drivers'[id] EXCEPT !.name = drivers[id].name])
                           = Untimed(drivers[id])
                    /\ drivers'[id].name = call'.name
                    /\ drivers'[id].createdAt > drivers[id].createdAt
                    /\ drivers'[id].updatedAt > drivers[id].updatedAt
                    /\ wallets'[id].createdAt > wallets[id].createdAt
                    /\ wallets'[id].updatedAt > wallets[id].updatedAt]_vars

\* The number was given with the '+' and then without it: there is one user,
\* under the number with the '+', and the documents are those of the second
\* call.
C11_Witness ==
    /\ DriverReturned
    /\ result.success
    /\ calls = 2
    /\ call.phone_number = <<"6", "3", "9">>
    /\ Cardinality(DOMAIN users) = 1
    /\ users[result.driverId].phone_number = <<"+", "6", "3", "9">>
    /\ users[result.driverId].display_name = call.name
    /\ drivers[result.driverId].createdAt = 2
    /\ wallets[result.driverId].createdAt = 2

====
